---------------------------- MODULE Spec2Model ----------------------------
(***************************************************************************)
(* A model of the incremental JSON generator of src/json_generator.c and   *)
(* of the caller of src/test.c.                                             *)
(*                                                                         *)
(* A C string is a sequence of one-character strings; the byte that ends   *)
(* it in memory is NUL.  A block of the heap is a sequence of bytes, one   *)
(* per allocated byte; a byte that was never written is UNINIT.            *)
(***************************************************************************)
EXTENDS Integers, Sequences, FiniteSets, TLC

\* ------------------------------------------------------------------------
\* Program constants
\* ------------------------------------------------------------------------
MAX_INT_IN_STR == 24
MAX_FLOAT_IN_STR == 30
MEM_CHUNK_SIZE == 250
JSON_FLOAT_PRECISION == 5
\* the width of long, which "%ld" formats, on the LP64 build the golden
\* string of src/test.c is written for
LONG_BITS == 64

\* ------------------------------------------------------------------------
\* Bounds of the model
\* ------------------------------------------------------------------------
\* operations a free caller issues after json_gen_str_start
MaxOps == 2
\* operations of a balanced document, from its opening bracket to its
\* closing one
MaxDocOps == 6
\* numbers a caller of the number encoders passes, one after the other
MaxFormatOps == 2

\* ------------------------------------------------------------------------
\* Bytes, strings, pointers
\* ------------------------------------------------------------------------
NUL == "NUL"
UNINIT == "??"
\* the null pointer passed where a const char * is expected
NULL == <<"(null)">>
\* the null block: a pointer into it is a null pointer
NOBLK == 0
NullPtr == [blk |-> NOBLK, off |-> 0]
NOCB == "NULL"

Min(a, b) == IF a < b THEN a ELSE b
Max(a, b) == IF a > b THEN a ELSE b

\* strlen
strlen(str) == Len(str)

\* ------------------------------------------------------------------------
\* snprintf
\* ------------------------------------------------------------------------
DigitChar(d) == SubSeq(<<"0", "1", "2", "3", "4", "5", "6", "7", "8", "9">>, d + 1, d + 1)

\* snprintf(str, size, ...) keeps at most size - 1 characters of the text
snprintf(size, text) == SubSeq(text, 1, Min(Len(text), size - 1))

\* the decimal digits of a natural number
RECURSIVE NatDigits(_)
NatDigits(n) == IF n < 10 THEN DigitChar(n) ELSE NatDigits(n \div 10) \o DigitChar(n % 10)

\* "%d": a negative value is rendered from val + 1, so that INT_MIN needs no
\* negation outside the range of int
RECURSIVE NegDigits(_)
NegDigits(v) ==
    \* v < 0; digits of -v
    LET w == -(v + 1)
        q == w \div 10
        r == (w % 10) + 1
    IN  IF r = 10
        THEN (IF q + 1 = 0 THEN <<>> ELSE NatDigits(q + 1)) \o DigitChar(0)
        ELSE (IF q = 0 THEN <<>> ELSE NatDigits(q)) \o DigitChar(r)

FormatInt(val) == IF val < 0 THEN <<"-">> \o NegDigits(val) ELSE NatDigits(val)

\* ---- 64-bit integers: two's complement in four 16-bit limbs, low limb first
LIMB == 65536

I64Negative(v) == v[4] >= LIMB \div 2

\* the low 32 bits of an int64_t, sign-extended, where long has 32 bits
AsLong(v, bits) ==
    IF bits >= 64 THEN v
    ELSE LET ext == IF v[2] >= LIMB \div 2 THEN LIMB - 1 ELSE 0
         IN  <<v[1], v[2], ext, ext>>

\* the magnitude (an unsigned 64-bit number) of a negative value: ~v + 1
RECURSIVE LimbsInc(_, _)
LimbsInc(ls, i) ==
    IF i > Len(ls) THEN ls
    ELSE IF ls[i] = LIMB - 1 THEN LimbsInc([ls EXCEPT ![i] = 0], i + 1)
    ELSE [ls EXCEPT ![i] = ls[i] + 1]

I64Magnitude(v) ==
    IF I64Negative(v) THEN LimbsInc([i \in 1..4 |-> (LIMB - 1) - v[i]], 1) ELSE v

\* long division of a limb vector by 10, from the high limb down
RECURSIVE LimbsDiv10(_, _, _)
LimbsDiv10(ls, i, rem) ==
    \* returns <<quotient limbs, remainder>>
    IF i = 0 THEN <<ls, rem>>
    ELSE LET cur == rem * LIMB + ls[i]
         IN  LimbsDiv10([ls EXCEPT ![i] = cur \div 10], i - 1, cur % 10)

LimbsZero(ls) == \A i \in 1..Len(ls) : ls[i] = 0

RECURSIVE LimbsDigits(_)
LimbsDigits(ls) ==
    LET qr == LimbsDiv10(ls, Len(ls), 0)
    IN  IF LimbsZero(qr[1]) THEN DigitChar(qr[2])
        ELSE LimbsDigits(qr[1]) \o DigitChar(qr[2])

\* the long that "%ld" reads where the caller passed an int64_t: the value
\* itself where long has 64 bits; where long has 32 bits the conversion
\* does not match its argument and reads one word of it, the low or the high
AsLongHigh(v) ==
    LET ext == IF v[4] >= LIMB \div 2 THEN LIMB - 1 ELSE 0
    IN  <<v[3], v[4], ext, ext>>

LongRead(v, bits) == IF bits >= 64 THEN {v} ELSE {AsLong(v, bits), AsLongHigh(v)}

\* the decimal text of a long
FormatLimbs(l) ==
    (IF I64Negative(l) THEN <<"-">> ELSE <<>>) \o LimbsDigits(I64Magnitude(l))

\* "%ld"
FormatLong(val) ==
    LET l == AsLong(val, LONG_BITS)
    IN  (IF I64Negative(l) THEN <<"-">> ELSE <<>>) \o LimbsDigits(I64Magnitude(l))

\* ---- float: the fields of an IEEE-754 single, [sign, exp, frac]; a finite
\* value is m * 2^e with m < 2^24.  "%.*f" prints the exact value rounded
\* to the precision, ties to even.
FloatMant(f) == IF f.exp = 0 THEN f.frac ELSE 8388608 + f.frac
FloatExp2(f) == IF f.exp = 0 THEN -149 ELSE f.exp - 150

\* decimal numbers as sequences of digits 0..9, high digit first
RECURSIVE DecOfNat(_)
DecOfNat(n) == IF n < 10 THEN <<n>> ELSE Append(DecOfNat(n \div 10), n % 10)

RECURSIVE DecHalve(_, _, _)
DecHalve(ds, i, carry) ==
    \* floor(ds / 2) and the bit shifted out
    IF i > Len(ds) THEN <<ds, carry>>
    ELSE LET cur == carry * 10 + ds[i]
         IN  DecHalve([ds EXCEPT ![i] = cur \div 2], i + 1, cur % 2)

RECURSIVE DecDouble(_, _, _)
DecDouble(ds, i, carry) ==
    IF i = 0 THEN (IF carry = 0 THEN ds ELSE <<carry>> \o ds)
    ELSE LET cur == 2 * ds[i] + carry
         IN  DecDouble([ds EXCEPT ![i] = cur % 10], i - 1, cur \div 10)

RECURSIVE DecInc(_, _)
DecInc(ds, i) ==
    IF i = 0 THEN <<1>> \o ds
    ELSE IF ds[i] = 9 THEN DecInc([ds EXCEPT ![i] = 0], i - 1)
    ELSE [ds EXCEPT ![i] = ds[i] + 1]

RECURSIVE DecStrip(_)
DecStrip(ds) == IF Len(ds) > 1 /\ ds[1] = 0 THEN DecStrip(Tail(ds)) ELSE ds

\* ds / 2^k rounded to an integer, ties to even: half is the last bit
\* shifted out, sticky the OR of the ones before it
RECURSIVE DecShiftRound(_, _, _, _)
DecShiftRound(ds, k, half, sticky) ==
    IF k = 0
    THEN IF half = 1 /\ (sticky = 1 \/ ds[Len(ds)] % 2 = 1)
         THEN DecInc(ds, Len(ds)) ELSE ds
    ELSE LET h == DecHalve(ds, 1, 0)
         IN  DecShiftRound(h[1], k - 1, h[2], IF half = 1 THEN 1 ELSE sticky)

RECURSIVE DecShiftLeft(_, _)
DecShiftLeft(ds, k) == IF k = 0 THEN ds ELSE DecShiftLeft(DecDouble(ds, Len(ds), 0), k - 1)

RECURSIVE DecChars(_)
DecChars(ds) == IF ds = <<>> THEN <<>> ELSE DigitChar(ds[1]) \o DecChars(Tail(ds))

\* "%.*f" with precision prec
FormatFloat(prec, f) ==
    LET scaled == DecOfNat(FloatMant(f)) \o [i \in 1..prec |-> 0]
        e == FloatExp2(f)
        q == DecStrip(IF e < 0 THEN DecShiftRound(scaled, -e, 0, 0)
                               ELSE DecShiftLeft(scaled, e))
        padded == IF Len(q) <= prec THEN [i \in 1..(prec + 1 - Len(q)) |-> 0] \o q ELSE q
        ip == SubSeq(padded, 1, Len(padded) - prec)
        fp == SubSeq(padded, Len(padded) - prec + 1, Len(padded))
    IN  (IF f.sign = 1 THEN <<"-">> ELSE <<>>)
        \o DecChars(ip) \o (IF prec > 0 THEN <<".">> \o DecChars(fp) ELSE <<>>)

\* ------------------------------------------------------------------------
\* The heap: the live blocks, each a sequence of bytes.  Byte i of the C
\* array is element i + 1 of the sequence.
\* ------------------------------------------------------------------------
\* n bytes never written
UninitPool == [i \in 1..(8 * MEM_CHUNK_SIZE) |-> UNINIT]
Uninit(n) == IF n <= Len(UninitPool) THEN SubSeq(UninitPool, 1, n) ELSE [i \in 1..n |-> UNINIT]

RECURSIVE FreshFrom(_, _)
FreshFrom(h, b) == IF b \in DOMAIN h THEN FreshFrom(h, b + 1) ELSE b
FreshBlk(h) == FreshFrom(h, 1)

HeapFree(h, p) == [b \in DOMAIN h \ {p} |-> h[b]]

\* malloc(n): the outcomes, each the heap after it and the pointer returned
malloc(h, n, may_fail) ==
    {[heap |-> h @@ (FreshBlk(h) :> Uninit(n)), p |-> FreshBlk(h), how |-> "new"]}
    \cup (IF may_fail THEN {[heap |-> h, p |-> NOBLK, how |-> "fail"]} ELSE {})

\* realloc(p, n): fails and leaves the block alone, or grows it in place, or
\* moves it (the first min(old, n) bytes copied, the old block freed)
realloc(h, p, n, may_fail) ==
    IF p = NOBLK \/ p \notin DOMAIN h THEN malloc(h, n, may_fail)
    ELSE LET old == h[p]
             grown == IF n <= Len(old) THEN SubSeq(old, 1, n)
                      ELSE old \o Uninit(n - Len(old))
             nb == FreshBlk(h)
         IN  {[heap |-> [h EXCEPT ![p] = grown], p |-> p, how |-> "inplace"],
              [heap |-> HeapFree(h, p) @@ (nb :> grown), p |-> nb, how |-> "move"]}
             \cup (IF may_fail THEN {[heap |-> h, p |-> NOBLK, how |-> "fail"]} ELSE {})

\* ------------------------------------------------------------------------
\* json_gen_str_t and the run of one operation.  A context carries the
\* struct, the heap and what the operation has done so far: the appends it
\* made (log), the callbacks it invoked (cbs), its return value (ret).
\* ------------------------------------------------------------------------
ZeroJstr ==
    [buf |-> NOBLK, buf_size |-> 0, flush_cb |-> NOCB, priv |-> 0,
     comma_req |-> FALSE, free_ptr |-> NullPtr, total_len |-> 0]

\* lines 29-32: the characters that still fit before the terminator
json_gen_get_empty_len(js) == js.buf_size - js.free_ptr.off - 1

\* the bytes 0 .. n-1 at block b (none when b is no live block)
Bytes(h, b, n) == IF b \in DOMAIN h THEN SubSeq(h[b], 1, Min(n, Len(h[b]))) ELSE <<>>

\* the committed text: bytes 0 .. total_len - 1 of the buffer
Committed(js, h) == Bytes(h, js.buf, js.total_len)

\* the C string at block b: the bytes before the first NUL (all of the
\* block when it holds none)
CStr(h, b) ==
    IF b \notin DOMAIN h THEN <<>>
    ELSE LET nuls == {i \in 1..Len(h[b]) : h[b][i] = NUL}
         IN  IF nuls = {} THEN h[b]
             ELSE SubSeq(h[b], 1, (CHOOSE i \in nuls : \A j \in nuls : i <= j) - 1)

\* strcpy(dst, str): len + 1 bytes written at dst.  Writing through a null
\* or a dead pointer, or past the end of the block, is undefined: the
\* process dies there, or goes on with the bytes that fit written.
strcpy(c, dst, str) ==
    LET bytes == str \o <<NUL>>
        live == dst.blk \in DOMAIN c.heap
        size == IF live THEN Len(c.heap[dst.blk]) ELSE 0
        fits == live /\ dst.off + Len(bytes) <= size
        fault == IF dst.blk = NOBLK THEN "null_write"
                 ELSE IF ~live THEN "dead_write"
                 ELSE IF ~fits THEN "overflow" ELSE "none"
        nfit == Max(0, Min(Len(bytes), size - dst.off))
        written == IF live /\ nfit > 0
                   THEN [c.heap EXCEPT ![dst.blk] =
                           SubSeq(@, 1, dst.off) \o SubSeq(bytes, 1, nfit)
                           \o SubSeq(@, dst.off + nfit + 1, size)]
                   ELSE c.heap
        wr == [blk |-> dst.blk, lo |-> dst.off, hi |-> dst.off + Len(bytes) - 1, size |-> size]
        after == [c EXCEPT !.heap = written, !.wr = wr,
                           !.fault = IF fault = "none" THEN @ ELSE fault]
    IN  IF fault = "none" THEN {after}
        ELSE {after, [after EXCEPT !.crashed = TRUE]}

NoWrite == [blk |-> NOBLK, lo |-> 0, hi |-> -1, size |-> 0]

\* one entry of the log: the append of str, what it returned, the struct
\* before and after it, what realloc did, the committed bytes before it
\* (text), the same bytes of the buffer after it (kept), the size of the
\* block the buffer is after it, and the bytes strcpy wrote
LogAppend(c0, c, str, r, how) ==
    [c EXCEPT !.ret = r,
              !.log = Append(@, [str |-> str, ret |-> r, realloc |-> how,
                                 pre |-> c0.js, post |-> c.js,
                                 text |-> Committed(c0.js, c0.heap),
                                 kept |-> Bytes(c.heap, c.js.buf, c0.js.total_len),
                                 size |-> IF c.js.buf \in DOMAIN c.heap
                                          THEN Len(c.heap[c.js.buf]) ELSE 0,
                                 wr |-> c.wr, crashed |-> c.crashed])]

\* a slip in the two additions: the terminator counted into total_len
AddTheString_CountsTerminator(c0, c, str, how) ==
    LET len == strlen(str)
    IN  { LogAppend(c0,
                    IF d.crashed THEN d
                    ELSE [d EXCEPT !.js.free_ptr.off = @ + len + 1, !.js.total_len = @ + len + 1],
                    str, 0, how)
          : d \in strcpy(c, c.js.free_ptr, str) }

\* lines 57-62: the copy and the two additions
AddTheString(c0, c, str, how) ==
    LET len == strlen(str)
    IN  { LogAppend(c0,
                    IF d.crashed THEN d
                    ELSE [d EXCEPT !.js.free_ptr.off = @ + len, !.js.total_len = @ + len],
                    str, 0, how)
          : d \in strcpy(c, c.js.free_ptr, str) }

\* a slip at line 54: free_ptr left pointing into the block realloc was given
GrowBuffer_StaleFreePtr(c, r, new_size) ==
    [c EXCEPT !.heap = r.heap, !.js.buf = r.p, !.js.buf_size = new_size]

\* a slip at line 54: the capacity recorded without the slack
GrowBuffer_NoSlack(c, r, new_size) ==
    [c EXCEPT !.heap = r.heap, !.js.buf = r.p,
              !.js.buf_size = new_size - MEM_CHUNK_SIZE,
              !.js.free_ptr = [blk |-> r.p, off |-> c.js.total_len]]

\* lines 52-54: realloc returned r.p, a block of new_size bytes
GrowBuffer(c, r, new_size) ==
    [c EXCEPT !.heap = r.heap, !.js.buf = r.p, !.js.buf_size = new_size,
              !.js.free_ptr = [blk |-> r.p, off |-> c.js.total_len]]

\* a slip at line 49: realloc's result stored in jstr->buf before the test
ReallocFailed_BufOverwritten(c) ==
    [c EXCEPT !.failed = TRUE, !.js.buf = NOBLK]

\* lines 50-51: realloc returned NULL; nothing of the struct is touched
ReallocFailed(c) == [c EXCEPT !.failed = TRUE]

\* a slip at lines 40-41: a null fragment reported as a failure
json_gen_add_to_str_NullFails(c, str) ==
    IF c.crashed THEN {c}
    ELSE IF str = NULL THEN {LogAppend(c, [c EXCEPT !.wr = NoWrite], str, -1, "none")}
    ELSE
    LET c1 == [c EXCEPT !.wr = NoWrite]
        required_len == c.js.total_len + strlen(str) + 1
        new_size == required_len + MEM_CHUNK_SIZE
    IN  IF required_len > c.js.buf_size
        THEN UNION {
               IF r.p = NOBLK
               THEN {LogAppend(c, ReallocFailed(c1), str, -1, r.how)}
               ELSE AddTheString(c, GrowBuffer(c1, r, new_size), str, r.how)
               : r \in realloc(c.heap, c.js.buf, new_size, c.may_fail) }
        ELSE AddTheString(c, c1, str, "none")

json_gen_add_to_str(c, str) ==
    IF c.crashed THEN {c}
    ELSE IF str = NULL THEN {LogAppend(c, [c EXCEPT !.wr = NoWrite], str, 0, "none")}
    ELSE
    LET c1 == [c EXCEPT !.wr = NoWrite]
        len == strlen(str)
        required_len == c.js.total_len + len + 1
        new_size == required_len + MEM_CHUNK_SIZE
    IN  IF required_len > c.js.buf_size
        THEN UNION {
               IF r.p = NOBLK
               THEN {LogAppend(c, ReallocFailed(c1), str, -1, r.how)}
               ELSE AddTheString(c, GrowBuffer(c1, r, new_size), str, r.how)
               : r \in realloc(c.heap, c.js.buf, new_size, c.may_fail) }
        ELSE AddTheString(c, c1, str, "none")

\* sequencing: run F on every outcome of a set of contexts
Then(C, F(_)) == UNION {F(c) : c \in C}

SetCommaReq(c, v) == IF c.crashed THEN c ELSE [c EXCEPT !.js.comma_req = v]

\* ------------------------------------------------------------------------
\* The operations of src/json_generator.c, each from a context to the set
\* of contexts it can end in
\* ------------------------------------------------------------------------
QUOTE == <<"\"">>

json_gen_str_start(c, flush_cb, priv) ==
    { [c EXCEPT !.heap = m.heap,
                !.failed = IF m.p = NOBLK THEN TRUE ELSE @,
                !.js = [ZeroJstr EXCEPT !.buf = m.p,
                                        !.buf_size = MEM_CHUNK_SIZE,
                                        !.flush_cb = flush_cb,
                                        !.free_ptr = [blk |-> m.p, off |-> 0],
                                        !.priv = priv]]
      : m \in malloc(c.heap, MEM_CHUNK_SIZE, c.may_fail) }

\* buf[i] = byte, by the rules of strcpy for a write that is undefined
StoreByte(c, ptr, byte) ==
    LET live == ptr.blk \in DOMAIN c.heap
        fits == live /\ ptr.off < Len(c.heap[ptr.blk])
        fault == IF ptr.blk = NOBLK THEN "null_write"
                 ELSE IF ~live THEN "dead_write"
                 ELSE IF ~fits THEN "overflow" ELSE "none"
        after == IF fits THEN [c EXCEPT !.heap[ptr.blk][ptr.off + 1] = byte]
                 ELSE [c EXCEPT !.fault = fault]
    IN  IF c.crashed THEN {c}
        ELSE IF fault = "none" THEN {after}
        ELSE {after, [after EXCEPT !.crashed = TRUE]}

\* the flush callback runs: what it is handed
InvokeFlush(c) ==
    IF c.crashed THEN c
    ELSE [c EXCEPT !.cbs = Append(@, [cb |-> c.js.flush_cb, buf |-> c.js.buf,
                                      text |-> CStr(c.heap, c.js.buf),
                                      priv |-> c.js.priv])]

\* a slip: the terminator left out of the length returned
json_gen_str_end_LengthOnly(c) ==
    { [d EXCEPT !.ret = c.js.total_len]
      : d \in IF c.js.buf # NOBLK
              THEN { IF e.js.flush_cb # NOCB THEN InvokeFlush(e) ELSE e
                     : e \in StoreByte(c, c.js.free_ptr, NUL) }
              ELSE {c} }

\* a slip: the length returned from inside the callback branch only
json_gen_str_end_WhenFlushed(c) ==
    { [d EXCEPT !.ret = IF c.js.flush_cb # NOCB THEN c.js.total_len + 1 ELSE 0]
      : d \in json_gen_str_end_LengthOnly(c) }

json_gen_str_end(c) ==
    LET total_len == c.js.total_len
        E1 == IF c.js.buf # NOBLK /\ c.js.total_len < c.js.buf_size
              THEN StoreByte(c, [blk |-> c.js.buf, off |-> c.js.total_len], NUL)
              ELSE {c}
        E2 == IF c.js.buf # NOBLK
              THEN { IF d.js.flush_cb # NOCB THEN InvokeFlush(d) ELSE d
                     : d \in Then(E1, LAMBDA e : StoreByte(e, e.js.free_ptr, NUL)) }
              ELSE E1
    IN  { [d EXCEPT !.ret = total_len + 1] : d \in E2 }

\* a slip: the buffer handed over to the caller, the generator left without
json_gen_get_json_string_Detach(c) ==
    { [c EXCEPT !.retp = c.js.buf, !.js.buf = NOBLK, !.js.free_ptr = NullPtr] }

json_gen_get_json_string(c) == { [c EXCEPT !.retp = c.js.buf] }

\* a slip: the block released and buf cleared, the counters left as they were
json_gen_free_buffer_KeepsSize(c) ==
    { [c EXCEPT !.heap = HeapFree(c.heap, c.js.buf), !.js.buf = NOBLK,
                !.js.free_ptr = NullPtr, !.js.flush_cb = NOCB, !.js.priv = 0,
                !.js.comma_req = FALSE] }

\* the struct is zeroed first, so the test of buf that follows reads NULL
json_gen_free_buffer(c) ==
    LET z == [c EXCEPT !.js = ZeroJstr]
    IN  IF z.js.buf # NOBLK
        THEN { [z EXCEPT !.heap = HeapFree(z.heap, z.js.buf), !.js.buf = NOBLK] }
        ELSE { z }

\* a slip: the separator written whatever comma_req says
json_gen_handle_comma_Always(c) == json_gen_add_to_str(c, <<",">>)

json_gen_handle_comma(c) ==
    IF c.js.comma_req THEN json_gen_add_to_str(c, <<",">>) ELSE {c}

json_gen_handle_name(c, name) ==
    Then(Then(json_gen_add_to_str(c, QUOTE),
              LAMBDA d : json_gen_add_to_str(d, name)),
         LAMBDA d : json_gen_add_to_str(d, <<"\"", ":">>))

json_gen_start_object(c) ==
    Then(json_gen_handle_comma(c),
         LAMBDA d : json_gen_add_to_str(SetCommaReq(d, FALSE), <<"{">>))

\* a slip: the closing brace leaves comma_req as the children left it
json_gen_end_object_KeepsCommaReq(c) == json_gen_add_to_str(c, <<"}">>)

json_gen_end_object(c) == json_gen_add_to_str(SetCommaReq(c, TRUE), <<"}">>)

json_gen_start_array(c) ==
    Then(json_gen_handle_comma(c),
         LAMBDA d : json_gen_add_to_str(SetCommaReq(d, FALSE), <<"[">>))

json_gen_end_array(c) == json_gen_add_to_str(SetCommaReq(c, TRUE), <<"]">>)

json_gen_push_object(c, name) ==
    Then(Then(json_gen_handle_comma(c), LAMBDA d : json_gen_handle_name(d, name)),
         LAMBDA d : json_gen_add_to_str(SetCommaReq(d, FALSE), <<"{">>))

json_gen_pop_object(c) == json_gen_add_to_str(SetCommaReq(c, TRUE), <<"}">>)

json_gen_push_object_str(c, name, object_str) ==
    Then(Then(json_gen_handle_comma(c), LAMBDA d : json_gen_handle_name(d, name)),
         LAMBDA d : json_gen_add_to_str(SetCommaReq(d, TRUE), object_str))

\* a slip: comma_req not cleared for the children of the array
json_gen_push_array_KeepsCommaReq(c, name) ==
    Then(Then(json_gen_handle_comma(c), LAMBDA d : json_gen_handle_name(d, name)),
         LAMBDA d : json_gen_add_to_str(d, <<"[">>))

json_gen_push_array(c, name) ==
    Then(Then(json_gen_handle_comma(c), LAMBDA d : json_gen_handle_name(d, name)),
         LAMBDA d : json_gen_add_to_str(SetCommaReq(d, FALSE), <<"[">>))

\* a slip: the closer of an object copied for the array
json_gen_pop_array_Brace(c) == json_gen_add_to_str(SetCommaReq(c, TRUE), <<"}">>)

json_gen_pop_array(c) == json_gen_add_to_str(SetCommaReq(c, TRUE), <<"]">>)

json_gen_push_array_str(c, name, array_str) ==
    Then(Then(json_gen_handle_comma(c), LAMBDA d : json_gen_handle_name(d, name)),
         LAMBDA d : json_gen_add_to_str(SetCommaReq(d, TRUE), array_str))

json_gen_set_bool(c, val) ==
    IF val THEN json_gen_add_to_str(SetCommaReq(c, TRUE), <<"t", "r", "u", "e">>)
    ELSE json_gen_add_to_str(SetCommaReq(c, TRUE), <<"f", "a", "l", "s", "e">>)

json_gen_obj_set_bool(c, name, val) ==
    Then(Then(json_gen_handle_comma(c), LAMBDA d : json_gen_handle_name(d, name)),
         LAMBDA d : json_gen_set_bool(d, val))

json_gen_arr_set_bool(c, val) ==
    Then(json_gen_handle_comma(c), LAMBDA d : json_gen_set_bool(d, val))

json_gen_set_int(c, val) ==
    json_gen_add_to_str(SetCommaReq(c, TRUE), snprintf(MAX_INT_IN_STR, FormatInt(val)))

json_gen_obj_set_int(c, name, val) ==
    Then(Then(json_gen_handle_comma(c), LAMBDA d : json_gen_handle_name(d, name)),
         LAMBDA d : json_gen_set_int(d, val))

json_gen_arr_set_int(c, val) ==
    Then(json_gen_handle_comma(c), LAMBDA d : json_gen_set_int(d, val))

\* a slip: the local buffer sized for a 32-bit int
json_gen_set_int64_ShortBuffer(c, val) ==
    UNION { json_gen_add_to_str(SetCommaReq(c, TRUE), snprintf(12, FormatLimbs(l)))
            : l \in LongRead(val, c.long_bits) }

json_gen_set_int64(c, val) ==
    UNION { json_gen_add_to_str(SetCommaReq(c, TRUE),
                                snprintf(MAX_INT_IN_STR, FormatLimbs(l)))
            : l \in LongRead(val, c.long_bits) }

json_gen_obj_set_int64(c, name, val) ==
    Then(Then(json_gen_handle_comma(c), LAMBDA d : json_gen_handle_name(d, name)),
         LAMBDA d : json_gen_set_int64(d, val))

json_gen_arr_set_int64(c, val) ==
    Then(json_gen_handle_comma(c), LAMBDA d : json_gen_set_int64(d, val))

json_gen_set_float(c, val) ==
    json_gen_add_to_str(SetCommaReq(c, TRUE),
                        snprintf(MAX_FLOAT_IN_STR, FormatFloat(JSON_FLOAT_PRECISION, val)))

json_gen_obj_set_float(c, name, val) ==
    Then(Then(json_gen_handle_comma(c), LAMBDA d : json_gen_handle_name(d, name)),
         LAMBDA d : json_gen_set_float(d, val))

json_gen_arr_set_float(c, val) ==
    Then(json_gen_handle_comma(c), LAMBDA d : json_gen_set_float(d, val))

json_gen_set_string(c, val) ==
    Then(Then(json_gen_add_to_str(SetCommaReq(c, TRUE), QUOTE),
              LAMBDA d : json_gen_add_to_str(d, val)),
         LAMBDA d : json_gen_add_to_str(d, QUOTE))

json_gen_obj_set_string(c, name, val) ==
    Then(Then(json_gen_handle_comma(c), LAMBDA d : json_gen_handle_name(d, name)),
         LAMBDA d : json_gen_set_string(d, val))

json_gen_arr_set_string(c, val) ==
    Then(json_gen_handle_comma(c), LAMBDA d : json_gen_set_string(d, val))

\* a slip: comma_req left as it was when a long string starts
json_gen_set_long_string_NoCommaReq(c, val) ==
    Then(json_gen_add_to_str(c, QUOTE), LAMBDA d : json_gen_add_to_str(d, val))

json_gen_set_long_string(c, val) ==
    Then(json_gen_add_to_str(SetCommaReq(c, TRUE), QUOTE),
         LAMBDA d : json_gen_add_to_str(d, val))

json_gen_obj_start_long_string(c, name, val) ==
    Then(Then(json_gen_handle_comma(c), LAMBDA d : json_gen_handle_name(d, name)),
         LAMBDA d : json_gen_set_long_string(d, val))

json_gen_arr_start_long_string(c, val) ==
    Then(json_gen_handle_comma(c), LAMBDA d : json_gen_set_long_string(d, val))

json_gen_add_to_long_string(c, val) == json_gen_add_to_str(c, val)

json_gen_end_long_string(c) == json_gen_add_to_str(c, QUOTE)

\* a variant: comma_req set only once the value is in the buffer
json_gen_set_null_SetsOnSuccess(c) ==
    { IF d.ret = 0 THEN SetCommaReq(d, TRUE) ELSE d
      : d \in json_gen_add_to_str(c, <<"n", "u", "l", "l">>) }

json_gen_set_null(c) ==
    json_gen_add_to_str(SetCommaReq(c, TRUE), <<"n", "u", "l", "l">>)

json_gen_obj_set_null(c, name) ==
    Then(Then(json_gen_handle_comma(c), LAMBDA d : json_gen_handle_name(d, name)),
         LAMBDA d : json_gen_set_null(d))

json_gen_arr_set_null(c) ==
    Then(json_gen_handle_comma(c), LAMBDA d : json_gen_set_null(d))

\* ------------------------------------------------------------------------
\* The state
\* ------------------------------------------------------------------------
VARIABLES
    jstr,       \* the json_gen_str_t of the caller
    heap,       \* the live blocks of the heap
    crashed,    \* the process died in an undefined write
    may_fail,   \* whether malloc and realloc may return NULL in this run
    caller,     \* "free": any operation; "script": the calls of a script;
                \* "doc": the calls of a balanced document
    script,     \* the calls of the script, in order
    nOps,       \* operations run since json_gen_str_start returned
    lastOp,     \* the last call: its function and arguments
    ret,        \* what it returned (an int)
    retp,       \* what it returned (a pointer)
    log,        \* the appends it made
    cbs,        \* the flush callbacks it invoked
    fault,      \* the last undefined write so far, "none" if none
    failed,     \* an allocation has failed since the first json_gen_str_start
    expected,   \* the reference rendering of the calls since json_gen_str_start
    reg,        \* the callback and priv given to the last json_gen_str_start
    phase,      \* "started", or "released" after json_gen_free_buffer
    doc,        \* what a "doc" caller has open, and where its siblings lie
    appended,   \* characters successfully appended since json_gen_str_start
    finalized,  \* json_gen_str_end has run, and only json_gen_get_json_string since
    long_bits   \* the width of long in the build

vars == <<jstr, heap, crashed, may_fail, caller, script, nOps, lastOp, ret, retp,
          log, cbs, fault, failed, expected, reg, phase, doc, appended, finalized,
          long_bits>>

\* ------------------------------------------------------------------------
\* The arguments a caller passes
\* ------------------------------------------------------------------------
Chars(n) == [i \in 1..n |-> "x"]

\* the values of src/test.c
I64_first_int64 == <<14598, 7697, 33763, 65173>>      \* -102030405060708090
I64_arr == <<47034, 29798, 7527, 3226>>               \* 908070605040302010
F_54_1643 == [sign |-> 0, exp |-> 132, frac |-> 5810238]   \* (float)54.1643
F_45_12 == [sign |-> 0, exp |-> 132, frac |-> 3439329]     \* (float)45.12

\* a caller registers no callback, or flush_cb with its priv
Registrations == {[cb |-> NOCB, priv |-> 0], [cb |-> "flush_cb", priv |-> 1]}
Names == {<<"a">>}
IntVals == {-7}
Int64Vals == {I64_first_int64}
FloatVals == {F_54_1643}
StrVals == {<<"s">>}
\* a raw fragment; the long one fills the first chunk to its last byte
\* when it follows the name "a":
RawVals == {<<"{", "}">>, Chars(MEM_CHUNK_SIZE - 5)}
\* a piece of a long string; the long ones fill the first chunk to its
\* last byte, and one byte past it
LongVals == {NULL, <<>>, Chars(MEM_CHUNK_SIZE - 1), Chars(MEM_CHUNK_SIZE)}

\* ------------------------------------------------------------------------
\* The scripted callers
\* ------------------------------------------------------------------------
\* json_gen_perform_test of src/test.c, after its json_gen_str_start
TestScript ==
    <<[fn |-> "json_gen_start_object"],
      [fn |-> "json_gen_obj_set_bool", name |-> <<"f", "i", "r", "s", "t", "_", "b", "o", "o", "l">>, b |-> TRUE],
      [fn |-> "json_gen_obj_set_int", name |-> <<"f", "i", "r", "s", "t", "_", "i", "n", "t">>, i |-> 30],
      [fn |-> "json_gen_obj_set_int64", name |-> <<"f", "i", "r", "s", "t", "_", "i", "n", "t", "6", "4">>, l |-> I64_first_int64],
      [fn |-> "json_gen_obj_set_float", name |-> <<"f", "l", "o", "a", "t", "_", "v", "a", "l">>, f |-> F_54_1643],
      [fn |-> "json_gen_obj_set_string", name |-> <<"m", "y", "_", "s", "t", "r">>, s |-> <<"n", "e", "w", "_", "n", "a", "m", "e">>],
      [fn |-> "json_gen_obj_set_null", name |-> <<"n", "u", "l", "l", "_", "o", "b", "j">>],
      [fn |-> "json_gen_push_array", name |-> <<"a", "r", "r">>],
      [fn |-> "json_gen_start_array"],
      [fn |-> "json_gen_arr_set_string", s |-> <<"a", "r", "r", "_", "s", "t", "r", "i", "n", "g">>],
      [fn |-> "json_gen_arr_set_bool", b |-> FALSE],
      [fn |-> "json_gen_arr_set_float", f |-> F_45_12],
      [fn |-> "json_gen_arr_set_null"],
      [fn |-> "json_gen_arr_set_int", i |-> 25],
      [fn |-> "json_gen_arr_set_int64", l |-> I64_arr],
      [fn |-> "json_gen_start_object"],
      [fn |-> "json_gen_obj_set_string", name |-> <<"a", "r", "r", "_", "o", "b", "j", "_", "s", "t", "r">>, s |-> <<"s", "a", "m", "p", "l", "e">>],
      [fn |-> "json_gen_end_object"],
      [fn |-> "json_gen_end_array"],
      [fn |-> "json_gen_pop_array"],
      [fn |-> "json_gen_push_object", name |-> <<"m", "y", "_", "o", "b", "j">>],
      [fn |-> "json_gen_obj_set_int", name |-> <<"o", "n", "l", "y", "_", "v", "a", "l">>, i |-> 5],
      [fn |-> "json_gen_pop_object"],
      [fn |-> "json_gen_end_object"],
      [fn |-> "json_gen_str_end"],
      [fn |-> "json_gen_get_json_string"]>>

\* expected_str of src/test.c
expected_str ==
    <<"{", "\"", "f", "i", "r", "s", "t", "_", "b", "o", "o", "l", "\"", ":", "t", "r",
      "u", "e", ",", "\"", "f", "i", "r", "s", "t", "_", "i", "n", "t", "\"", ":", "3",
      "0", ",", "\"", "f", "i", "r", "s", "t", "_", "i", "n", "t", "6", "4", "\"", ":",
      "-", "1", "0", "2", "0", "3", "0", "4", "0", "5", "0", "6", "0", "7", "0", "8",
      "0", "9", "0", ",", "\"", "f", "l", "o", "a", "t", "_", "v", "a", "l", "\"", ":",
      "5", "4", ".", "1", "6", "4", "3", "0", ",", "\"", "m", "y", "_", "s", "t", "r",
      "\"", ":", "\"", "n", "e", "w", "_", "n", "a", "m", "e", "\"", ",", "\"", "n",
      "u", "l", "l", "_", "o", "b", "j", "\"", ":", "n", "u", "l", "l", ",", "\"", "a",
      "r", "r", "\"", ":", "[", "[", "\"", "a", "r", "r", "_", "s", "t", "r", "i", "n",
      "g", "\"", ",", "f", "a", "l", "s", "e", ",", "4", "5", ".", "1", "2", "0", "0",
      "0", ",", "n", "u", "l", "l", ",", "2", "5", ",", "9", "0", "8", "0", "7", "0",
      "6", "0", "5", "0", "4", "0", "3", "0", "2", "0", "1", "0", ",", "{", "\"", "a",
      "r", "r", "_", "o", "b", "j", "_", "s", "t", "r", "\"", ":", "\"", "s", "a", "m",
      "p", "l", "e", "\"", "}", "]", "]", ",", "\"", "m", "y", "_", "o", "b", "j",
      "\"", ":", "{", "\"", "o", "n", "l", "y", "_", "v", "a", "l", "\"", ":", "5",
      "}", "}">>

\* the end-to-end scenario of the documentation, after json_gen_str_start
ScenarioScript ==
    <<[fn |-> "json_gen_start_object"],
      [fn |-> "json_gen_obj_set_bool", name |-> <<"a">>, b |-> TRUE],
      [fn |-> "json_gen_push_array", name |-> <<"b">>],
      [fn |-> "json_gen_start_array"],
      [fn |-> "json_gen_arr_set_int", i |-> 1],
      [fn |-> "json_gen_arr_set_int", i |-> 2],
      [fn |-> "json_gen_arr_set_null"],
      [fn |-> "json_gen_end_array"],
      [fn |-> "json_gen_pop_array"],
      [fn |-> "json_gen_end_object"],
      [fn |-> "json_gen_str_end"]>>

\* the text the scenario is to build
ScenarioText ==
    <<"{", "\"", "a", "\"", ":", "t", "r", "u", "e", ",", "\"", "b", "\"", ":", "[",
      "1", ",", "2", ",", "n", "u", "l", "l", "]", "}">>

\* a document with long strings and raw fragments, read back and released
LongStringScript ==
    <<[fn |-> "json_gen_start_object"],
      [fn |-> "json_gen_obj_start_long_string", name |-> <<"a">>, s |-> <<"x">>],
      [fn |-> "json_gen_add_to_long_string", s |-> <<"y", "z">>],
      [fn |-> "json_gen_add_to_long_string", s |-> Chars(MEM_CHUNK_SIZE)],
      [fn |-> "json_gen_end_long_string"],
      [fn |-> "json_gen_push_object_str", name |-> <<"b">>, s |-> <<"{", "}">>],
      [fn |-> "json_gen_push_array_str", name |-> <<"c">>, s |-> <<"[", "1", "]">>],
      [fn |-> "json_gen_push_array", name |-> <<"d">>],
      [fn |-> "json_gen_arr_start_long_string", s |-> <<"x">>],
      [fn |-> "json_gen_add_to_long_string", s |-> NULL],
      [fn |-> "json_gen_end_long_string"],
      [fn |-> "json_gen_arr_set_int", i |-> -7],
      [fn |-> "json_gen_pop_array"],
      [fn |-> "json_gen_end_object"],
      [fn |-> "json_gen_str_end"],
      [fn |-> "json_gen_get_json_string"],
      [fn |-> "json_gen_get_json_string"],
      [fn |-> "json_gen_free_buffer"]>>

Scripts == {TestScript, ScenarioScript, LongStringScript}

\* the values a free caller passes, and those of a balanced document (a
\* comma inside its strings, a comma inside its raw fragment)
FreeVals ==
    [names |-> Names, bools |-> BOOLEAN, ints |-> IntVals, int64s |-> Int64Vals,
     floats |-> FloatVals, strs |-> StrVals, raws |-> RawVals, longs |-> LongVals]
DocVals ==
    [names |-> Names, bools |-> {TRUE}, ints |-> IntVals, int64s |-> Int64Vals,
     floats |-> FloatVals, strs |-> {<<"s", ",">>},
     raws |-> {<<"[", "1", ",", "2", "]">>}, longs |-> {<<",", "t">>}]

CallsWith(fn, V) ==
    CASE fn = "json_gen_str_start" ->
           {[fn |-> fn, cb |-> r.cb, priv |-> r.priv] : r \in Registrations}
      [] fn \in {"json_gen_push_object", "json_gen_push_array", "json_gen_obj_set_null"} ->
           {[fn |-> fn, name |-> n] : n \in V.names}
      [] fn \in {"json_gen_push_object_str", "json_gen_push_array_str"} ->
           {[fn |-> fn, name |-> n, s |-> v] : n \in V.names, v \in V.raws}
      [] fn = "json_gen_obj_set_bool" ->
           {[fn |-> fn, name |-> n, b |-> v] : n \in V.names, v \in V.bools}
      [] fn = "json_gen_arr_set_bool" -> {[fn |-> fn, b |-> v] : v \in V.bools}
      [] fn = "json_gen_obj_set_int" ->
           {[fn |-> fn, name |-> n, i |-> v] : n \in V.names, v \in V.ints}
      [] fn = "json_gen_arr_set_int" -> {[fn |-> fn, i |-> v] : v \in V.ints}
      [] fn = "json_gen_obj_set_int64" ->
           {[fn |-> fn, name |-> n, l |-> v] : n \in V.names, v \in V.int64s}
      [] fn = "json_gen_arr_set_int64" -> {[fn |-> fn, l |-> v] : v \in V.int64s}
      [] fn = "json_gen_obj_set_float" ->
           {[fn |-> fn, name |-> n, f |-> v] : n \in V.names, v \in V.floats}
      [] fn = "json_gen_arr_set_float" -> {[fn |-> fn, f |-> v] : v \in V.floats}
      [] fn \in {"json_gen_obj_set_string", "json_gen_obj_start_long_string"} ->
           {[fn |-> fn, name |-> n, s |-> v] : n \in V.names, v \in V.strs}
      [] fn \in {"json_gen_arr_set_string", "json_gen_arr_start_long_string"} ->
           {[fn |-> fn, s |-> v] : v \in V.strs}
      [] fn = "json_gen_add_to_long_string" -> {[fn |-> fn, s |-> v] : v \in V.longs}
      [] OTHER -> {[fn |-> fn]}

FreeCalls(fn) == CallsWith(fn, FreeVals)

\* ------------------------------------------------------------------------
\* The caller of the number encoders: the values of src/test.c, the ends of
\* the range of int64_t, values of either sign within and beyond 32 bits
\* ------------------------------------------------------------------------
I64_MIN == <<0, 0, 0, 32768>>                         \* -9223372036854775808
I64_MAX == <<65535, 65535, 65535, 32767>>            \*  9223372036854775807
I64_MinusOne == <<65535, 65535, 65535, 65535>>       \* -1
I64_Zero == <<0, 0, 0, 0>>
I64_Seven == <<7, 0, 0, 0>>
I64_2_31 == <<0, 32768, 0, 0>>                       \*  2147483648
F_Half == [sign |-> 0, exp |-> 126, frac |-> 0]      \*  0.5
F_MinusOne == [sign |-> 1, exp |-> 127, frac |-> 0]  \* -1.0

FormatVals ==
    [names |-> Names, bools |-> {TRUE}, ints |-> IntVals,
     int64s |-> {I64_first_int64, I64_arr, I64_MIN, I64_MAX, I64_MinusOne, I64_Zero,
                 I64_Seven, I64_2_31},
     floats |-> {F_54_1643, F_45_12, F_Half, F_MinusOne},
     strs |-> StrVals, raws |-> RawVals, longs |-> LongVals]

\* a long of 32 bits (ILP32, LLP64) or of 64 (LP64)
LongWidths == {32, LONG_BITS}

\* ------------------------------------------------------------------------
\* The caller of a balanced document: a root container, named forms inside
\* an object and element forms inside an array, each container closed by
\* the closer of its opener, a long string ended before anything else, and
\* never more open than the operations left can close
\* ------------------------------------------------------------------------
EmptyDoc ==
    [stack |-> <<>>, long |-> <<>>, done |-> <<>>, root |-> FALSE, brk |-> <<>>,
     ltext |-> <<>>, lcomma |-> FALSE]

CloserOf(fn) ==
    CASE fn = "json_gen_start_object" -> "json_gen_end_object"
      [] fn = "json_gen_start_array" -> "json_gen_end_array"
      [] fn = "json_gen_push_object" -> "json_gen_pop_object"
      [] fn = "json_gen_push_array" -> "json_gen_pop_array"

IsObject(fn) == fn \in {"json_gen_start_object", "json_gen_push_object"}

NamedForms ==
    {"json_gen_obj_set_bool", "json_gen_obj_set_int", "json_gen_obj_set_int64",
     "json_gen_obj_set_float", "json_gen_obj_set_string", "json_gen_obj_set_null",
     "json_gen_push_object_str", "json_gen_push_array_str",
     "json_gen_obj_start_long_string", "json_gen_push_object", "json_gen_push_array"}
ElementForms ==
    {"json_gen_arr_set_bool", "json_gen_arr_set_int", "json_gen_arr_set_int64",
     "json_gen_arr_set_float", "json_gen_arr_set_string", "json_gen_arr_set_null",
     "json_gen_arr_start_long_string", "json_gen_start_object", "json_gen_start_array"}

\* the operations a sibling of this kind still takes, itself included
OpsOf(fn) ==
    IF fn \in {"json_gen_start_object", "json_gen_start_array", "json_gen_push_object",
               "json_gen_push_array", "json_gen_obj_start_long_string",
               "json_gen_arr_start_long_string", "json_gen_add_to_long_string"}
    THEN 2 ELSE 1

DocAllowed ==
    LET depth == Len(doc.stack)
        room == MaxDocOps - nOps
        fits == {fn \in NamedForms \cup ElementForms \cup {"json_gen_add_to_long_string"} :
                    OpsOf(fn) + depth <= room}
    IN  IF doc.root THEN {}
        ELSE IF doc.long # <<>>
        THEN {"json_gen_end_long_string"} \cup (fits \cap {"json_gen_add_to_long_string"})
        ELSE IF depth = 0
        THEN {"json_gen_start_object", "json_gen_start_array"}
        ELSE LET top == doc.stack[depth]
             IN  {CloserOf(top.opener)}
                 \cup (fits \cap (IF IsObject(top.opener) THEN NamedForms
                                  ELSE ElementForms))

DocCalls(fn) == IF fn \in DocAllowed THEN CallsWith(fn, DocVals) ELSE {}

\* the calls of fn the caller may make next
Calls(fn) ==
    IF crashed THEN {}
    ELSE IF caller = "script"
    THEN IF nOps < Len(script) /\ script[nOps + 1].fn = fn THEN {script[nOps + 1]} ELSE {}
    ELSE IF caller = "doc" THEN DocCalls(fn)
    ELSE IF caller = "format"
    THEN IF nOps < MaxFormatOps THEN CallsWith(fn, FormatVals) ELSE {}
    ELSE IF nOps < MaxOps THEN FreeCalls(fn) ELSE {}

\* ------------------------------------------------------------------------
\* The reference rendering of a call: the text the documentation says it
\* adds, given comma_req when it began
\* ------------------------------------------------------------------------
Lifecycle == {"json_gen_str_start", "json_gen_str_end", "json_gen_get_json_string",
              "json_gen_free_buffer"}
Closers == {"json_gen_end_object", "json_gen_end_array", "json_gen_pop_object",
            "json_gen_pop_array"}
Openers == {"json_gen_start_object", "json_gen_start_array", "json_gen_push_object",
            "json_gen_push_array"}
LongParts == {"json_gen_add_to_long_string", "json_gen_end_long_string"}
LongStarts == {"json_gen_obj_start_long_string", "json_gen_arr_start_long_string"}
RawSetters == {"json_gen_push_object_str", "json_gen_push_array_str"}
TypedSetters ==
    {"json_gen_obj_set_bool", "json_gen_arr_set_bool", "json_gen_obj_set_int",
     "json_gen_arr_set_int", "json_gen_obj_set_int64", "json_gen_arr_set_int64",
     "json_gen_obj_set_float", "json_gen_arr_set_float", "json_gen_obj_set_string",
     "json_gen_arr_set_string", "json_gen_obj_set_null", "json_gen_arr_set_null"}
\* the scalar encoders, in both forms
Scalars == TypedSetters \cup RawSetters \cup LongStarts
\* the operations that put a value or open a container: a sibling begins
Values == Scalars \cup Openers
Emissions == Values \cup Closers \cup LongParts

Text(str) == IF str = NULL THEN <<>> ELSE str

RefToken(op) ==
    CASE op.fn \in {"json_gen_start_object", "json_gen_push_object"} -> <<"{">>
      [] op.fn \in {"json_gen_start_array", "json_gen_push_array"} -> <<"[">>
      [] op.fn \in {"json_gen_end_object", "json_gen_pop_object"} -> <<"}">>
      [] op.fn \in {"json_gen_end_array", "json_gen_pop_array"} -> <<"]">>
      [] op.fn \in {"json_gen_obj_set_bool", "json_gen_arr_set_bool"} ->
           IF op.b THEN <<"t", "r", "u", "e">> ELSE <<"f", "a", "l", "s", "e">>
      [] op.fn \in {"json_gen_obj_set_int", "json_gen_arr_set_int"} -> FormatInt(op.i)
      [] op.fn \in {"json_gen_obj_set_int64", "json_gen_arr_set_int64"} -> FormatLong(op.l)
      [] op.fn \in {"json_gen_obj_set_float", "json_gen_arr_set_float"} ->
           FormatFloat(JSON_FLOAT_PRECISION, op.f)
      [] op.fn \in {"json_gen_obj_set_string", "json_gen_arr_set_string"} ->
           QUOTE \o Text(op.s) \o QUOTE
      [] op.fn \in {"json_gen_obj_set_null", "json_gen_arr_set_null"} ->
           <<"n", "u", "l", "l">>
      [] op.fn \in LongStarts -> QUOTE \o Text(op.s)
      [] op.fn = "json_gen_end_long_string" -> QUOTE
      [] op.fn \in RawSetters \cup {"json_gen_add_to_long_string"} -> Text(op.s)
      [] OTHER -> <<>>

RefRendering(op, comma) ==
    (IF comma /\ op.fn \in Values THEN <<",">> ELSE <<>>)
    \o (IF "name" \in DOMAIN op THEN QUOTE \o Text(op.name) \o <<"\"", ":">> ELSE <<>>)
    \o RefToken(op)

\* ------------------------------------------------------------------------
\* The calls
\* ------------------------------------------------------------------------
\* where the siblings of a balanced document lie in the text: the call op
\* has left total_len characters, the last of them its own rendering
AddSibling(stack, sib) ==
    IF stack = <<>> THEN stack
    ELSE [stack EXCEPT ![Len(stack)].sibs = Append(@, sib)]

DocAfter(op, total_len) ==
    LET from == total_len - Len(RefRendering(op, FALSE)) + 1
        depth == Len(doc.stack)
    IN  CASE op.fn \in Openers ->
               [doc EXCEPT !.stack = Append(@, [opener |-> op.fn, from |-> from,
                                               open |-> total_len, sibs |-> <<>>]),
                           !.done = <<>>, !.brk = Append(@, total_len)]
          [] op.fn \in Closers ->
               LET top == doc.stack[depth]
               IN  [doc EXCEPT !.stack = AddSibling(SubSeq(@, 1, depth - 1),
                                             [kind |-> "container", from |-> top.from,
                                              to |-> total_len]),
                               !.done = <<[opener |-> top.opener, open |-> top.open,
                                           sibs |-> top.sibs, close |-> total_len]>>,
                               !.root = (depth = 1), !.brk = Append(@, total_len)]
          [] op.fn \in LongStarts ->
               [doc EXCEPT !.long = <<from>>, !.done = <<>>,
                           !.ltext = RefRendering(op, FALSE),
                           !.lcomma = jstr.comma_req]
          [] op.fn = "json_gen_add_to_long_string" ->
               [doc EXCEPT !.done = <<>>, !.ltext = @ \o Text(op.s)]
          [] op.fn = "json_gen_end_long_string" ->
               [doc EXCEPT !.stack = AddSibling(@, [kind |-> "long", from |-> doc.long[1],
                                                    to |-> total_len]),
                           !.long = <<>>, !.done = <<>>, !.ltext = @ \o QUOTE]
          [] op.fn \in RawSetters ->
               [doc EXCEPT !.stack = AddSibling(@, [kind |-> "raw", from |-> from,
                                                    to |-> total_len]),
                           !.done = <<>>]
          [] op.fn \in TypedSetters ->
               [doc EXCEPT !.stack = AddSibling(@, [kind |-> "scalar", from |-> from,
                                                    to |-> total_len]),
                           !.done = <<>>]
          [] OTHER -> doc

\* the characters the appends of a log added: those that returned 0
RECURSIVE AppendedBy(_)
AppendedBy(l) ==
    IF l = <<>> THEN 0
    ELSE (IF l[1].ret = 0 /\ ~l[1].crashed /\ l[1].str # NULL THEN Len(l[1].str) ELSE 0)
         + AppendedBy(Tail(l))

Ctx ==
    [js |-> jstr, heap |-> heap, log |-> <<>>, cbs |-> <<>>, ret |-> 0, retp |-> NOBLK,
     wr |-> NoWrite, fault |-> fault, failed |-> failed, crashed |-> FALSE,
     may_fail |-> may_fail, long_bits |-> long_bits]

\* the call op ended in context c
Commit(op, c) ==
    /\ jstr' = c.js
    /\ heap' = c.heap
    /\ crashed' = c.crashed
    /\ fault' = c.fault
    /\ failed' = c.failed
    /\ log' = c.log
    /\ cbs' = c.cbs
    /\ ret' = c.ret
    /\ retp' = c.retp
    /\ lastOp' = op
    /\ nOps' = nOps + 1
    /\ expected' = IF op.fn = "json_gen_str_start" THEN <<>>
                   ELSE expected \o RefRendering(op, jstr.comma_req)
    /\ reg' = IF op.fn = "json_gen_str_start" THEN [cb |-> op.cb, priv |-> op.priv]
              ELSE reg
    /\ phase' = IF op.fn = "json_gen_str_start" THEN "started"
                ELSE IF op.fn = "json_gen_free_buffer" THEN "released" ELSE phase
    /\ doc' = IF caller = "doc" THEN DocAfter(op, c.js.total_len) ELSE doc
    /\ appended' = IF op.fn = "json_gen_str_start" THEN 0 ELSE appended + AppendedBy(c.log)
    /\ finalized' = \/ op.fn = "json_gen_str_end"
                    \/ finalized /\ op.fn = "json_gen_get_json_string"
    /\ UNCHANGED <<may_fail, caller, script, long_bits>>

Call_str_start ==
    \E op \in Calls("json_gen_str_start") :
        \E c \in json_gen_str_start(Ctx, op.cb, op.priv) : Commit(op, c)

Call_str_end ==
    \E op \in Calls("json_gen_str_end") :
        \E c \in json_gen_str_end(Ctx) : Commit(op, c)

Call_get_json_string ==
    \E op \in Calls("json_gen_get_json_string") :
        \E c \in json_gen_get_json_string(Ctx) : Commit(op, c)

Call_free_buffer ==
    \E op \in Calls("json_gen_free_buffer") :
        \E c \in json_gen_free_buffer(Ctx) : Commit(op, c)

Call_start_object ==
    \E op \in Calls("json_gen_start_object") :
        \E c \in json_gen_start_object(Ctx) : Commit(op, c)

Call_end_object ==
    \E op \in Calls("json_gen_end_object") :
        \E c \in json_gen_end_object(Ctx) : Commit(op, c)

Call_start_array ==
    \E op \in Calls("json_gen_start_array") :
        \E c \in json_gen_start_array(Ctx) : Commit(op, c)

Call_end_array ==
    \E op \in Calls("json_gen_end_array") :
        \E c \in json_gen_end_array(Ctx) : Commit(op, c)

Call_push_object ==
    \E op \in Calls("json_gen_push_object") :
        \E c \in json_gen_push_object(Ctx, op.name) : Commit(op, c)

Call_pop_object ==
    \E op \in Calls("json_gen_pop_object") :
        \E c \in json_gen_pop_object(Ctx) : Commit(op, c)

Call_push_object_str ==
    \E op \in Calls("json_gen_push_object_str") :
        \E c \in json_gen_push_object_str(Ctx, op.name, op.s) : Commit(op, c)

Call_push_array ==
    \E op \in Calls("json_gen_push_array") :
        \E c \in json_gen_push_array(Ctx, op.name) : Commit(op, c)

Call_pop_array ==
    \E op \in Calls("json_gen_pop_array") :
        \E c \in json_gen_pop_array(Ctx) : Commit(op, c)

Call_push_array_str ==
    \E op \in Calls("json_gen_push_array_str") :
        \E c \in json_gen_push_array_str(Ctx, op.name, op.s) : Commit(op, c)

Call_obj_set_bool ==
    \E op \in Calls("json_gen_obj_set_bool") :
        \E c \in json_gen_obj_set_bool(Ctx, op.name, op.b) : Commit(op, c)

Call_arr_set_bool ==
    \E op \in Calls("json_gen_arr_set_bool") :
        \E c \in json_gen_arr_set_bool(Ctx, op.b) : Commit(op, c)

Call_obj_set_int ==
    \E op \in Calls("json_gen_obj_set_int") :
        \E c \in json_gen_obj_set_int(Ctx, op.name, op.i) : Commit(op, c)

Call_arr_set_int ==
    \E op \in Calls("json_gen_arr_set_int") :
        \E c \in json_gen_arr_set_int(Ctx, op.i) : Commit(op, c)

Call_obj_set_int64 ==
    \E op \in Calls("json_gen_obj_set_int64") :
        \E c \in json_gen_obj_set_int64(Ctx, op.name, op.l) : Commit(op, c)

Call_arr_set_int64 ==
    \E op \in Calls("json_gen_arr_set_int64") :
        \E c \in json_gen_arr_set_int64(Ctx, op.l) : Commit(op, c)

Call_obj_set_float ==
    \E op \in Calls("json_gen_obj_set_float") :
        \E c \in json_gen_obj_set_float(Ctx, op.name, op.f) : Commit(op, c)

Call_arr_set_float ==
    \E op \in Calls("json_gen_arr_set_float") :
        \E c \in json_gen_arr_set_float(Ctx, op.f) : Commit(op, c)

Call_obj_set_string ==
    \E op \in Calls("json_gen_obj_set_string") :
        \E c \in json_gen_obj_set_string(Ctx, op.name, op.s) : Commit(op, c)

Call_arr_set_string ==
    \E op \in Calls("json_gen_arr_set_string") :
        \E c \in json_gen_arr_set_string(Ctx, op.s) : Commit(op, c)

Call_obj_start_long_string ==
    \E op \in Calls("json_gen_obj_start_long_string") :
        \E c \in json_gen_obj_start_long_string(Ctx, op.name, op.s) : Commit(op, c)

Call_arr_start_long_string ==
    \E op \in Calls("json_gen_arr_start_long_string") :
        \E c \in json_gen_arr_start_long_string(Ctx, op.s) : Commit(op, c)

Call_add_to_long_string ==
    \E op \in Calls("json_gen_add_to_long_string") :
        \E c \in json_gen_add_to_long_string(Ctx, op.s) : Commit(op, c)

Call_end_long_string ==
    \E op \in Calls("json_gen_end_long_string") :
        \E c \in json_gen_end_long_string(Ctx) : Commit(op, c)

Call_obj_set_null ==
    \E op \in Calls("json_gen_obj_set_null") :
        \E c \in json_gen_obj_set_null(Ctx, op.name) : Commit(op, c)

Call_arr_set_null ==
    \E op \in Calls("json_gen_arr_set_null") :
        \E c \in json_gen_arr_set_null(Ctx) : Commit(op, c)

\* ------------------------------------------------------------------------
\* The specifications
\* ------------------------------------------------------------------------
\* the state json_gen_str_start(jstr, cb, priv) leaves, whatever jstr held
InitWith(kind, scripts, oom, widths) ==
    /\ may_fail \in oom
    /\ long_bits \in widths
    /\ caller = kind
    /\ script \in scripts
    /\ \E r \in Registrations :
         /\ lastOp = [fn |-> "json_gen_str_start", cb |-> r.cb, priv |-> r.priv]
         /\ reg = r
         /\ \E c \in json_gen_str_start(
                       [js |-> ZeroJstr, heap |-> <<>>, log |-> <<>>, cbs |-> <<>>,
                        ret |-> 0, retp |-> NOBLK, wr |-> NoWrite, fault |-> "none",
                        failed |-> FALSE, crashed |-> FALSE, may_fail |-> may_fail,
                        long_bits |-> long_bits],
                       r.cb, r.priv) :
              /\ jstr = c.js
              /\ heap = c.heap
              /\ failed = c.failed
    /\ crashed = FALSE
    /\ nOps = 0
    /\ ret = 0
    /\ retp = NOBLK
    /\ log = <<>>
    /\ cbs = <<>>
    /\ fault = "none"
    /\ expected = <<>>
    /\ phase = "started"
    /\ doc = EmptyDoc
    /\ appended = 0
    /\ finalized = FALSE

\* a free caller; allocation may fail from here on (the first malloc has
\* succeeded: a json_gen_str_start whose malloc fails is Call_str_start)
Init == InitWith("free", {<<>>}, {TRUE}, {LONG_BITS}) /\ jstr.buf # NOBLK

Emission ==
    \/ Call_start_object
    \/ Call_end_object
    \/ Call_start_array
    \/ Call_end_array
    \/ Call_push_object
    \/ Call_pop_object
    \/ Call_push_object_str
    \/ Call_push_array
    \/ Call_pop_array
    \/ Call_push_array_str
    \/ Call_obj_set_bool
    \/ Call_arr_set_bool
    \/ Call_obj_set_int
    \/ Call_arr_set_int
    \/ Call_obj_set_int64
    \/ Call_arr_set_int64
    \/ Call_obj_set_float
    \/ Call_arr_set_float
    \/ Call_obj_set_string
    \/ Call_arr_set_string
    \/ Call_obj_start_long_string
    \/ Call_arr_start_long_string
    \/ Call_add_to_long_string
    \/ Call_end_long_string
    \/ Call_obj_set_null
    \/ Call_arr_set_null

Next ==
    \/ Call_str_start
    \/ Call_str_end
    \/ Call_get_json_string
    \/ Call_free_buffer
    \/ Emission

Spec == Init /\ [][Next]_vars

\* a scripted caller: every allocation succeeds
InitScript == InitWith("script", Scripts, {FALSE}, {LONG_BITS})

NextScript ==
    \/ Call_str_end
    \/ Call_get_json_string
    \/ Call_free_buffer
    \/ Emission

SpecScript == InitScript /\ [][NextScript]_vars

\* the caller of a balanced document: every allocation succeeds
InitDoc == InitWith("doc", {<<>>}, {FALSE}, {LONG_BITS})

NextDoc == Emission

SpecDoc == InitDoc /\ [][NextDoc]_vars

\* the caller of the number encoders, on a build of either width of long:
\* every allocation succeeds
InitFormat == InitWith("format", {<<>>}, {FALSE}, LongWidths) /\ reg.cb = NOCB

NextFormat ==
    \/ Call_obj_set_int64
    \/ Call_arr_set_int64
    \/ Call_obj_set_float
    \/ Call_arr_set_float

SpecFormat == InitFormat /\ [][NextFormat]_vars

\* ------------------------------------------------------------------------
\* What the claims read
\* ------------------------------------------------------------------------
\* the last call returned to its caller
Returned == ~crashed
\* a generator json_gen_str_start gave a buffer, not released since
Initialized == phase = "started" /\ jstr.buf # NOBLK
LogIdx == 1..Len(log)
Grew(e) == e.realloc \in {"inplace", "move", "new"}

\* C1: with no allocation failure, the committed text of a started generator
\* is the concatenation, in call order, of the reference renderings of the
\* calls made since json_gen_str_start: a comma iff comma_req was set when a
\* value or container-open call began, the quoted name and colon for the
\* named forms, then the token of the call.
C1_ReferenceRendering ==
    (phase = "started" /\ ~failed) => Committed(jstr, heap) = expected

\* a named 64-bit value written after a sibling, in a buffer that has grown
C1_Witness ==
    /\ phase = "started" /\ ~failed
    /\ lastOp.fn = "json_gen_obj_set_int64"
    /\ Len(log) > 0 /\ log[1].str = <<",">>
    /\ jstr.buf_size > MEM_CHUNK_SIZE
    /\ Committed(jstr, heap) = expected

\* the commas of text[lo..hi] that lie outside every string and outside
\* every bracket opened in text[lo..hi]
InString(text, lo, i) == Cardinality({j \in lo..(i - 1) : text[j] = "\""}) % 2 = 1
Depth(text, lo, i) ==
    Cardinality({j \in lo..(i - 1) : text[j] \in {"{", "["} /\ ~InString(text, lo, j)})
    - Cardinality({j \in lo..(i - 1) : text[j] \in {"}", "]"} /\ ~InString(text, lo, j)})
LevelCommas(text, lo, hi) ==
    {i \in lo..hi : text[i] = "," /\ ~InString(text, lo, i) /\ Depth(text, lo, i) = 0}

\* C3: with no allocation failure, when a balanced document closes a
\* container that received N >= 2 siblings (scalars, raw fragments, long
\* strings, nested containers, empty ones too), the text between its brackets
\* holds exactly N - 1 commas at its own nesting level, one directly between
\* each two consecutive siblings; the first sibling begins directly after the
\* opening bracket and the last ends directly before the closing one.
C3_SiblingSeparators ==
    \A k \in 1..Len(doc.done) :
        LET f == doc.done[k]
            N == Len(f.sibs)
            text == Committed(jstr, heap)
        IN  N >= 2 =>
              /\ f.close = Len(text)
              /\ text[f.open] = (IF IsObject(f.opener) THEN "{" ELSE "[")
              /\ text[f.close] = (IF IsObject(f.opener) THEN "}" ELSE "]")
              /\ Cardinality(LevelCommas(text, f.open + 1, f.close - 1)) = N - 1
              /\ LevelCommas(text, f.open + 1, f.close - 1)
                   = {f.sibs[i].to + 1 : i \in 1..(N - 1)}
              /\ \A i \in 1..(N - 1) : f.sibs[i + 1].from = f.sibs[i].to + 2
              /\ f.sibs[1].from = f.open + 1
              /\ f.sibs[N].to = f.close - 1

\* a container closes over an empty nested container and a long string
C3_Witness ==
    /\ caller = "doc" /\ ~failed
    /\ doc.done # <<>>
    /\ Len(doc.done[1].sibs) >= 2
    /\ \E i, j \in 1..Len(doc.done[1].sibs) :
          /\ doc.done[1].sibs[i].kind = "container"
          /\ doc.done[1].sibs[i].to = doc.done[1].sibs[i].from + 1
          /\ doc.done[1].sibs[j].kind = "long"

\* C4: comma_req is false right after json_gen_str_start and after every
\* container open, and true right after every scalar emission and every
\* container close.
C4_CommaReqAfterCall ==
    Returned =>
      /\ lastOp.fn \in {"json_gen_str_start"} \cup Openers => jstr.comma_req = FALSE
      /\ lastOp.fn \in Scalars \cup Closers => jstr.comma_req = TRUE

\* a named container opened after a sibling (its comma was appended)
C4_Witness ==
    /\ Returned
    /\ lastOp.fn = "json_gen_push_array"
    /\ Len(log) > 0 /\ log[1].str = <<",">> /\ log[1].pre.comma_req
    /\ jstr.comma_req = FALSE

\* C5: after every successful mutating call on an initialized generator, and
\* after every successful append in it, total_len < buf_size, and the
\* terminator slot at total_len lies inside the block the buffer is.
C5_LengthBelowCapacity ==
    /\ (Initialized /\ Returned /\ lastOp.fn \in Emissions /\ ret = 0) =>
          /\ jstr.total_len < jstr.buf_size
          /\ jstr.buf \in DOMAIN heap
          /\ jstr.buf_size <= Len(heap[jstr.buf])
    /\ \A i \in LogIdx :
          (log[i].ret = 0 /\ ~log[i].crashed /\ log[i].post.buf # NOBLK) =>
             /\ log[i].post.total_len < log[i].post.buf_size
             /\ log[i].post.buf_size <= log[i].size

\* a successful call that made a growing and a non-growing append
C5_Witness ==
    /\ Initialized /\ Returned /\ ret = 0 /\ lastOp.fn \in Emissions
    /\ \E i, j \in LogIdx :
         /\ Grew(log[i]) /\ log[i].ret = 0
         /\ log[j].realloc = "none" /\ log[j].ret = 0 /\ Len(log[j].str) > 0 /\ log[j].str # NULL
    /\ jstr.total_len < jstr.buf_size

\* C6: a successful append of a fragment longer than the remaining capacity
\* leaves the committed bytes as they were, and no append writes a byte
\* (the terminator included) past index buf_size - 1 of the buffer's block.
C6_GrowthKeepsBytes ==
    \A i \in LogIdx :
      LET e == log[i] IN
      /\ (e.pre.buf # NOBLK /\ e.str # NULL /\ e.ret = 0 /\ ~e.crashed
            /\ Len(e.str) > json_gen_get_empty_len(e.pre)) =>
           /\ e.kept = e.text
           /\ Len(e.kept) = e.pre.total_len
      /\ (e.wr.hi >= e.wr.lo /\ e.post.buf # NOBLK) =>
           /\ e.wr.blk = e.post.buf
           /\ e.wr.hi <= e.post.buf_size - 1
           /\ e.post.buf_size <= e.wr.size

\* the block moved under a buffer that held text, and the text is still there
C6_Witness ==
    \E i \in LogIdx :
      /\ log[i].realloc = "move" /\ log[i].ret = 0
      /\ log[i].pre.total_len > 0
      /\ Len(log[i].str) > json_gen_get_empty_len(log[i].pre)
      /\ log[i].kept = log[i].text
      /\ log[i].wr.hi = log[i].post.total_len

\* C7: an append whose realloc fails returns -1, writes nothing and leaves
\* buf, the committed bytes, total_len, buf_size and free_ptr as they were;
\* the appends after it write inside the block, which is still live.
C7_FailedReallocLeavesState ==
    \A i \in LogIdx :
      log[i].realloc = "fail" =>
        /\ log[i].ret = -1
        /\ log[i].wr = NoWrite
        /\ log[i].post = log[i].pre
        /\ log[i].kept = log[i].text
        /\ log[i].pre.buf # NOBLK => log[i].size >= log[i].pre.buf_size
        /\ \A j \in LogIdx :
             (j > i /\ log[j].wr.hi >= log[j].wr.lo /\ log[j].post.buf # NOBLK) =>
                /\ log[j].wr.blk = log[j].post.buf
                /\ log[j].wr.hi < log[j].wr.size

\* an append failed in a buffer that held text, and a later append of the
\* same call wrote
C7_Witness ==
    \E i, j \in LogIdx :
      /\ j > i
      /\ log[i].realloc = "fail" /\ log[i].pre.total_len > 0 /\ log[i].pre.buf # NOBLK
      /\ log[j].ret = 0 /\ log[j].wr.hi >= log[j].wr.lo

\* C8: when the append of a fragment fails, the call returns the failure at
\* once: the failed append is its last, and the call returns -1.
C8_FailureReturnedAtOnce ==
    (Initialized /\ Returned /\ lastOp.fn \in Emissions) =>
       \A i \in LogIdx :
          log[i].ret = -1 =>
             /\ ret = -1
             /\ \A j \in LogIdx : j > i => log[j].post.total_len = log[j].pre.total_len

\* C9 as claimed: a scalar encoder that returns success leaves comma_req
\* true, one that returns failure leaves comma_req as it was before the call.
C9_CommaReqKeptOnFailure ==
    (Returned /\ lastOp.fn \in Scalars /\ Len(log) > 0) =>
       /\ ret = 0 => jstr.comma_req = TRUE
       /\ ret = -1 => jstr.comma_req = log[1].pre.comma_req

\* C9 amended: a scalar encoder sets comma_req before it appends its value,
\* so comma_req is true after the call whether it returned success or
\* failure.
C9_CommaReqSetEitherWay ==
    (Returned /\ lastOp.fn \in Scalars) =>
       /\ ret = 0 => jstr.comma_req = TRUE
       /\ ret = -1 => jstr.comma_req = TRUE

\* a scalar encoder failed where comma_req was false before the call
C9_Witness ==
    /\ Returned /\ lastOp.fn \in Scalars
    /\ ret = -1
    /\ Len(log) > 0 /\ log[1].pre.comma_req = FALSE
    /\ jstr.comma_req = TRUE

\* C10: with a callback registered at json_gen_str_start, json_gen_str_end
\* invokes it exactly once, with the buffer holding the committed text,
\* terminated, and with the priv registered; no emission invokes it or
\* changes the stored callback or priv.
C10_FlushOncePerEnd ==
    (Returned /\ phase = "started" /\ reg.cb # NOCB) =>
       /\ lastOp.fn = "json_gen_str_end" =>
            /\ Len(cbs) = 1
            /\ cbs[1].cb = reg.cb
            /\ cbs[1].buf = jstr.buf
            /\ cbs[1].text = Committed(jstr, heap)
            /\ cbs[1].priv = reg.priv
       /\ lastOp.fn \in Emissions =>
            /\ cbs = <<>>
            /\ jstr.flush_cb = reg.cb
            /\ jstr.priv = reg.priv

\* C2 as claimed: after json_gen_str_start, the scenario start_object,
\* obj_set_bool("a", true), push_array("b"), start_array, arr_set_int(1),
\* arr_set_int(2), arr_set_null, end_array, pop_array, end_object, str_end
\* leaves the buffer holding exactly {"a":true,"b":[1,2,null]}, terminated,
\* and str_end returns the character count of that text plus one.
C2_ScenarioAsClaimed ==
    (script = ScenarioScript /\ nOps = Len(ScenarioScript)) =>
       /\ CStr(heap, jstr.buf) = ScenarioText
       /\ ret = Len(ScenarioText) + 1

\* what the scenario builds: push_array("b") and start_array each open an
\* array, end_array and pop_array each close one
ScenarioBuilt ==
    <<"{", "\"", "a", "\"", ":", "t", "r", "u", "e", ",", "\"", "b", "\"", ":">>
    \o <<"[", "[", "1", ",", "2", ",", "n", "u", "l", "l", "]", "]", "}">>

\* C2 amended: the scenario leaves the buffer holding exactly
\* {"a":true,"b":[[1,2,null]]}, terminated, and str_end returns the character
\* count of that text plus one (28).
C2_Scenario ==
    (script = ScenarioScript /\ nOps = Len(ScenarioScript)) =>
       /\ lastOp.fn = "json_gen_str_end"
       /\ CStr(heap, jstr.buf) = ScenarioBuilt
       /\ Committed(jstr, heap) = ScenarioBuilt
       /\ ret = Len(ScenarioBuilt) + 1

\* the scenario has run to its json_gen_str_end
C2_Witness ==
    /\ script = ScenarioScript /\ nOps = Len(ScenarioScript)
    /\ lastOp.fn = "json_gen_str_end"
    /\ ret = 28

\* C11: on a generator json_gen_str_start gave a buffer, json_gen_str_end
\* returns total_len + 1 with or without a callback registered, total_len
\* being the characters appended since json_gen_str_start; the terminator is
\* at index total_len, below buf_size, and the buffer is still allocated.
C11_EndReturnsLength ==
    (Initialized /\ Returned /\ lastOp.fn = "json_gen_str_end") =>
       /\ ret = jstr.total_len + 1
       /\ jstr.total_len = appended
       /\ jstr.total_len < jstr.buf_size
       /\ jstr.buf \in DOMAIN heap
       /\ jstr.buf_size <= Len(heap[jstr.buf])
       /\ heap[jstr.buf][jstr.total_len + 1] = NUL

\* json_gen_str_end without a callback, after text that made the buffer grow
C11_Witness ==
    /\ Initialized /\ Returned /\ lastOp.fn = "json_gen_str_end"
    /\ reg.cb = NOCB /\ cbs = <<>>
    /\ jstr.buf_size > MEM_CHUNK_SIZE
    /\ ret = appended + 1 /\ appended >= MEM_CHUNK_SIZE

\* C12: json_gen_free_buffer deallocates the buffer the generator owned and
\* leaves every field zero: after start, emissions, finalize and release no
\* block allocated for the generator is live.
C12_ReleaseFreesBuffer ==
    (Returned /\ lastOp.fn = "json_gen_free_buffer") =>
       /\ jstr = ZeroJstr
       /\ DOMAIN heap = {}

\* C13: between json_gen_str_start and json_gen_free_buffer the buffer
\* pointer is non-null and no operation writes through a null pointer,
\* allocation failing wherever it may.
C13_BufferNeverNull ==
    phase = "started" =>
       /\ jstr.buf # NOBLK
       /\ fault # "null_write"

\* the brackets of b still unmatched, in order, or <<"bad">> when a closer
\* meets no opener of its kind as the most recent unmatched one
RECURSIVE Unmatched(_, _)
Unmatched(b, open) ==
    IF b = <<>> THEN open
    ELSE IF b[1] \in {"{", "["} THEN Unmatched(Tail(b), Append(open, b[1]))
    ELSE IF /\ open # <<>>
            /\ <<open[Len(open)], b[1]>> \in {<<"{", "}">>, <<"[", "]">>}
    THEN Unmatched(Tail(b), SubSeq(open, 1, Len(open) - 1))
    ELSE <<"bad">>

\* the characters the open and close operations of a document put in the text
EmittedBrackets ==
    [i \in 1..Len(doc.brk) |-> Committed(jstr, heap)[doc.brk[i]]]

\* C14: with no allocation failure, the brackets emitted by the open and
\* close operations of a balanced document are balanced and ordered: every
\* closer closes the most recent unmatched opener, of its own kind; what is
\* unmatched is what the caller still has open, nothing once the root closed.
C14_BracketsBalanced ==
    caller = "doc" =>
       /\ Unmatched(EmittedBrackets, <<>>)
            = [i \in 1..Len(doc.stack) |->
                  IF IsObject(doc.stack[i].opener) THEN "{" ELSE "["]
       /\ doc.root => Unmatched(EmittedBrackets, <<>>) = <<>>

\* a document closed over three containers, objects and arrays among them
C14_Witness ==
    /\ caller = "doc" /\ doc.root
    /\ Len(doc.brk) = 6
    /\ {"{", "}", "[", "]"} \subseteq {EmittedBrackets[i] : i \in 1..Len(doc.brk)}
    /\ Unmatched(EmittedBrackets, <<>>) = <<>>

\* C15: json_gen_get_json_string changes no field and no byte and returns
\* the buffer; json_gen_str_end changes neither total_len, buf_size,
\* comma_req, the buffer pointer nor a committed byte; so each
\* json_gen_get_json_string after json_gen_str_end returns the same buffer,
\* whose C string is the committed text.
C15_ReadsKeepState ==
    [][ ~crashed' =>
          /\ lastOp'.fn = "json_gen_get_json_string" =>
                /\ jstr' = jstr
                /\ heap' = heap
                /\ retp' = jstr.buf
                /\ (finalized /\ jstr.buf # NOBLK) =>
                      /\ CStr(heap', retp') = Committed(jstr, heap)
                      /\ lastOp.fn = "json_gen_get_json_string" => retp' = retp
          /\ lastOp'.fn = "json_gen_str_end" =>
                /\ jstr'.total_len = jstr.total_len
                /\ jstr'.buf_size = jstr.buf_size
                /\ jstr'.comma_req = jstr.comma_req
                /\ jstr'.buf = jstr.buf
                /\ Committed(jstr', heap') = Committed(jstr, heap)
                /\ jstr.buf # NOBLK => CStr(heap', jstr'.buf) = Committed(jstr, heap)
    ]_vars

\* the second json_gen_get_json_string after json_gen_str_end, on a buffer
\* that grew
C15_Witness ==
    /\ finalized /\ lastOp.fn = "json_gen_get_json_string"
    /\ script = LongStringScript /\ nOps = 17
    /\ retp = jstr.buf /\ retp # NOBLK
    /\ jstr.total_len > MEM_CHUNK_SIZE
    /\ CStr(heap, retp) = Committed(jstr, heap)

\* the decimal text of the values of src/test.c and of the ends of the range
Text_first_int64 ==
    <<"-", "1", "0", "2", "0", "3", "0", "4", "0", "5", "0", "6", "0", "7", "0", "8", "0", "9", "0">>
Text_arr == <<"9", "0", "8", "0", "7", "0", "6", "0", "5", "0", "4", "0", "3", "0", "2", "0", "1", "0">>
Text_I64_MIN ==
    <<"-", "9", "2", "2", "3", "3", "7", "2", "0", "3", "6", "8", "5", "4", "7", "7", "5", "8", "0", "8">>
Text_I64_MAX == <<"9", "2", "2", "3", "3", "7", "2", "0", "3", "6", "8", "5", "4", "7", "7", "5", "8", "0", "7">>
Text_54_1643 == <<"5", "4", ".", "1", "6", "4", "3", "0">>

\* the value text the last call appended
ValueText == log[Len(log)].str

\* C16: the 64-bit integer encoder renders every int64_t as its exact decimal
\* text, minus sign first for a negative, in at most 20 characters that the
\* 24-character buffer never truncates (-102030405060708090 and
\* 908070605040302010 among them), and the float encoder renders 54.1643
\* as 54.16430.
C16_NumbersExact ==
    (Returned /\ nOps > 0 /\ Len(log) > 0) =>
       /\ lastOp.fn \in {"json_gen_obj_set_int64", "json_gen_arr_set_int64"} =>
             /\ ValueText = FormatLimbs(lastOp.l)
             /\ Len(ValueText) <= 20
             /\ lastOp.l = I64_first_int64 => ValueText = Text_first_int64
             /\ lastOp.l = I64_arr => ValueText = Text_arr
             /\ lastOp.l = I64_MIN => ValueText = Text_I64_MIN
             /\ lastOp.l = I64_MAX => ValueText = Text_I64_MAX
       /\ (lastOp.fn \in {"json_gen_obj_set_float", "json_gen_arr_set_float"}
             /\ lastOp.f = F_54_1643) => ValueText = Text_54_1643

\* the siblings of the container a balanced document is in, the sibling
\* the last call began left out, and where that sibling begins
Last(q) == q[Len(q)]
BeganSibling == lastOp.fn \in Values /\ nOps > 0
EarlierSiblings ==
    LET depth == Len(doc.stack)
    IN  IF lastOp.fn \in Openers
        THEN (IF depth >= 2 THEN doc.stack[depth - 1].sibs ELSE <<>>)
        ELSE IF lastOp.fn \in LongStarts THEN doc.stack[depth].sibs
        ELSE SubSeq(doc.stack[depth].sibs, 1, Len(doc.stack[depth].sibs) - 1)
BeganAt ==
    IF lastOp.fn \in Openers THEN Last(doc.stack).from
    ELSE IF lastOp.fn \in LongStarts THEN doc.long[1]
    ELSE Last(Last(doc.stack).sibs).from

\* C17: with no allocation failure, a long string started, added to and ended
\* with nothing interleaved is a comma if comma_req was set at the start,
\* the quoted name and colon for the object form, a quote, the fragments in
\* order and a quote; comma_req is true from the start on, through the
\* appends and the end, and the next sibling follows exactly one comma put
\* right after the closing quote.
C17_LongString ==
    LET text == Committed(jstr, heap)
    IN  caller = "doc" =>
          /\ (doc.long # <<>> \/ lastOp.fn = "json_gen_end_long_string") =>
                jstr.comma_req = TRUE
          /\ doc.long # <<>> =>
                /\ SubSeq(text, doc.long[1], Len(text)) = doc.ltext
                /\ doc.lcomma <=> text[doc.long[1] - 1] = ","
                /\ doc.lcomma <=> Last(doc.stack).sibs # <<>>
          /\ lastOp.fn = "json_gen_end_long_string" =>
                LET s == Last(Last(doc.stack).sibs)
                IN  /\ s.kind = "long" /\ s.to = Len(text)
                    /\ SubSeq(text, s.from, s.to) = doc.ltext
                    /\ doc.lcomma <=> text[s.from - 1] = ","
          /\ (BeganSibling /\ EarlierSiblings # <<>>
                /\ Last(EarlierSiblings).kind = "long") =>
                LET s == Last(EarlierSiblings)
                IN  /\ text[s.to] = "\""
                    /\ text[s.to + 1] = ","
                    /\ BeganAt = s.to + 2

\* an object member written as a long string with one added fragment, and
\* the sibling after it
C17_Witness ==
    /\ caller = "doc" /\ BeganSibling /\ EarlierSiblings # <<>>
    /\ Last(EarlierSiblings).kind = "long"
    /\ Last(EarlierSiblings).to - Last(EarlierSiblings).from + 1 = Len(doc.ltext)
    /\ doc.ltext = <<"\"", "a", "\"", ":", "\"", "s", ",", ",", "t", "\"">>
    /\ Committed(jstr, heap)[BeganAt - 1] = ","

\* C18 as claimed: with no allocation failure, the append of a null or of an
\* empty fragment returns success and leaves total_len, buf_size, free_ptr,
\* the buffer pointer and the committed bytes as they were, in every state:
\* freshly started, partly filled, exactly full, and after release.
C18_FragmentsNoOp ==
    ~failed =>
       \A i \in LogIdx :
          log[i].str \in {NULL, <<>>} =>
             /\ log[i].ret = 0
             /\ log[i].post = log[i].pre
             /\ log[i].kept = log[i].text

\* C18 amended: the append of a null fragment returns success and changes
\* nothing in every state; the append of an empty fragment returns success
\* and leaves total_len, buf_size, free_ptr, the buffer pointer and the
\* committed bytes as they were wherever the generator holds a buffer
\* (freshly started, partly filled, exactly full); in the all-zero state
\* after release an empty fragment takes the growth path: it returns success
\* with a new buffer of 1 + 250 bytes and total_len 0, or -1 with nothing
\* changed when the allocation fails.
C18_NullAndEmptyFragments ==
    \A i \in LogIdx :
       LET e == log[i]
       IN  /\ e.str = NULL =>
                /\ e.ret = 0 /\ ~e.crashed
                /\ e.post = e.pre
                /\ e.kept = e.text
                /\ e.wr = NoWrite /\ e.realloc = "none"
           /\ (e.str = <<>> /\ e.pre.buf # NOBLK) =>
                /\ e.ret = 0 /\ ~e.crashed
                /\ e.post = e.pre
                /\ e.kept = e.text
                /\ e.realloc = "none"
                /\ e.wr.lo = e.pre.total_len /\ e.wr.hi = e.pre.total_len
                /\ e.wr.hi < e.pre.buf_size
           /\ (e.str = <<>> /\ e.pre.buf = NOBLK /\ e.pre.buf_size = 0) =>
                /\ e.realloc \in {"new", "fail"}
                /\ e.realloc = "new" =>
                      /\ e.ret = 0
                      /\ e.post.buf # NOBLK
                      /\ e.post.buf_size = 1 + MEM_CHUNK_SIZE
                      /\ e.post.total_len = 0
                /\ e.realloc = "fail" => (e.ret = -1 /\ e.post = e.pre)

\* an empty fragment appended to a buffer that is exactly full
C18_Witness ==
    /\ Initialized /\ Returned /\ ret = 0
    /\ lastOp.fn = "json_gen_add_to_long_string" /\ lastOp.s = <<>>
    /\ Len(log) = 1
    /\ log[1].pre.total_len = log[1].pre.buf_size - 1
    /\ log[1].post = log[1].pre
    /\ log[1].wr.hi = log[1].pre.buf_size - 1

\* the length an append needs: total_len + fragment length + 1
RequiredLen(e) == e.pre.total_len + Len(e.str) + 1

\* the capacity after the appends l, started from capacity n: each append
\* is taken with the capacity it found and the capacity it left
RECURSIVE SizeChain(_, _)
SizeChain(l, n) ==
    IF l = <<>> THEN {n}
    ELSE IF Head(l).pre.buf_size # n THEN {}
    ELSE SizeChain(Tail(l), Head(l).post.buf_size)

\* C19: between json_gen_str_start and json_gen_free_buffer buf_size starts
\* at 250 and never decreases; it changes only in an append whose required
\* length exceeds buf_size and whose realloc succeeds, and is then that
\* required length + 250; an append whose required length is at most
\* buf_size performs no realloc.
C19_Capacity ==
    [][ /\ lastOp'.fn = "json_gen_str_start" => jstr'.buf_size = MEM_CHUNK_SIZE
        /\ (/\ phase = "started" /\ phase' = "started"
            /\ lastOp'.fn # "json_gen_str_start") =>
              /\ jstr'.buf_size >= jstr.buf_size
              /\ SizeChain(log', jstr.buf_size) = {jstr'.buf_size}
              /\ \A i \in DOMAIN log' :
                   LET e == log'[i]
                   IN  /\ e.post.buf_size # e.pre.buf_size =>
                             /\ e.str # NULL /\ Grew(e)
                             /\ RequiredLen(e) > e.pre.buf_size
                       /\ (e.str # NULL /\ Grew(e)) =>
                             e.post.buf_size = RequiredLen(e) + MEM_CHUNK_SIZE
                       /\ (e.str # NULL /\ RequiredLen(e) > e.pre.buf_size) =>
                             e.realloc # "none"
                       /\ (e.str # NULL /\ RequiredLen(e) <= e.pre.buf_size) =>
                             e.realloc = "none"
                       /\ e.str = NULL => e.realloc = "none"
      ]_vars

\* an operation grew the buffer of a started generator: the append that
\* found 250 bytes too few left a capacity of its required length + 250
C19_Witness ==
    /\ Initialized /\ Returned
    /\ \E i \in LogIdx :
          /\ Grew(log[i])
          /\ log[i].pre.buf_size = MEM_CHUNK_SIZE
          /\ RequiredLen(log[i]) > MEM_CHUNK_SIZE
          /\ log[i].post.buf_size = RequiredLen(log[i]) + MEM_CHUNK_SIZE
          /\ jstr.buf_size = log[i].post.buf_size

\* the state json_gen_free_buffer leaves: no buffer, no capacity, no text
AllZero(js) == js.buf = NOBLK /\ js.buf_size = 0 /\ js.total_len = 0

\* C20: json_gen_free_buffer leaves the all-zero state; an operation issued
\* after release takes the growth path at every non-null fragment it appends
\* while there is no buffer, and writes only after realloc gave it a fresh
\* block of required length + 250 bytes (a refused allocation returns -1
\* with nothing written); json_gen_str_end with no buffer writes nothing and
\* returns 1; no operation issued after release writes through a null
\* pointer; and an emission issued in the state free_buffer left starts a
\* new buffer with comma_req false: its text has no leading separator.
C20_AfterRelease ==
    [][ /\ lastOp'.fn = "json_gen_free_buffer" => jstr' = ZeroJstr
        /\ (/\ phase = "released"
            /\ lastOp'.fn \notin {"json_gen_str_start", "json_gen_free_buffer"}) =>
              /\ ~crashed' /\ fault' = fault
              /\ (AllZero(jstr) /\ lastOp'.fn = "json_gen_str_end") =>
                    /\ ret' = 1 /\ heap' = heap /\ jstr' = jstr
                    /\ log' = <<>> /\ cbs' = <<>>
              /\ \A i \in DOMAIN log' :
                   LET e == log'[i]
                   IN  /\ (e.wr.hi >= e.wr.lo) =>
                             /\ e.wr.blk # NOBLK /\ e.wr.blk = e.post.buf
                             /\ e.wr.hi < e.size
                       /\ (AllZero(e.pre) /\ e.str # NULL) =>
                             /\ e.realloc \in {"new", "fail"}
                             /\ e.realloc = "new" =>
                                   /\ e.ret = 0
                                   /\ e.post.buf \notin DOMAIN heap
                                   /\ e.post.buf_size = RequiredLen(e) + MEM_CHUNK_SIZE
                                   /\ e.size = e.post.buf_size
                                   /\ e.post.free_ptr = [blk |-> e.post.buf, off |-> Len(e.str)]
                                   /\ e.wr.lo = 0
                             /\ e.realloc = "fail" =>
                                   /\ e.ret = -1 /\ e.wr = NoWrite
                                   /\ e.post = e.pre
              /\ (jstr = ZeroJstr /\ \A i \in DOMAIN log' : log'[i].ret = 0) =>
                    Committed(jstr', heap') = RefRendering(lastOp', FALSE)
      ]_vars

\* an emission issued after release wrote its text into a new buffer
C20_Witness ==
    /\ phase = "released" /\ Returned
    /\ lastOp.fn = "json_gen_obj_set_string"
    /\ Len(log) > 1
    /\ AllZero(log[1].pre) /\ log[1].realloc = "new"
    /\ \A i \in LogIdx : log[i].ret = 0
    /\ jstr.buf # NOBLK /\ jstr.comma_req
    /\ Committed(jstr, heap) = RefRendering(lastOp, FALSE)

=============================================================================
